---- MODULE Spec2Model ----
(***************************************************************************)
(* GpuOrderSectorsByVisibilityCoverage: the sector id space, the coverage  *)
(* proxies kept in the scene, the visibility query that reads the rendered *)
(* ids back and ranks them, the clipping of the coverage pass, the debug   *)
(* surface and disposal.  With it, two helpers of the viewer: the          *)
(* TimelineTool (keyframes and their playback) and fetchWithRetry of the   *)
(* CdfModelDataClient.                                                     *)
(***************************************************************************)
EXTENDS Integers, Sequences, FiniteSets, TLC

VARIABLES
    sectorIdOffset,   \* running id total (private sectorIdOffset)
    containers,       \* Map<string, SectorContainer>, in insertion order
    scene,            \* children of the THREE.Scene: renderable handles, in order
    objects,          \* the live THREE objects: handle -> [matrix, instances]
    renderTarget,     \* [width, height] of the off-screen target, set at construction
    buffers,          \* [rtBuffer, sectorVisibilityBuffer], reused across queries
    registered,       \* history: one [sectorCount, offset] per addModel, in order
    lastCall,         \* what the last operation was called with and returned
    coverageMaterial, \* [clippingPlanes, clipIntersection] of the material all proxies share
    configured,       \* history: the arguments of the most recent setClipping call
    debugRenderer,    \* Null, or the renderer createDebugCanvas has made
    released,         \* history: how often each GPU resource has been disposed
    timeline,         \* the TimelineTool, the timers it has set and the styles of its model
    request           \* the fetchWithRetry call in flight, or the last one made

registry == <<sectorIdOffset, containers, scene, objects, registered>>

vars == <<sectorIdOffset, containers, scene, objects, renderTarget, buffers,
          registered, lastCall, coverageMaterial, configured, debugRenderer,
          released, timeline, request>>

\* what the registry operations and the queries leave alone
surfaces == <<coverageMaterial, configured, debugRenderer, released>>

\* the helpers next to the instance, which its operations do not touch
helpers == <<timeline, request>>

\* the instance, which the helpers do not touch
instance == <<registry, renderTarget, buffers, surfaces>>

----------------------------------------------------------------------------
(* Bounds *)

\* setModels takes lists of at most this many models
MaxModels == 2
\* setModels calls that would push the running id total above this are not taken
MaxIdTotal == 3
\* addModel is taken at most this many times in one lifetime
MaxRegistrations == 3

\* the registries of the tall-target specification hold at most this many sectors
MaxTallSectors == 2

\* the depth byte of a rendered fragment is drawn from 0..MaxDepth
MaxDepth == 1

\* the owner of the GL context sets clear colours that encode the ids 0..MaxClearId
MaxClearId == 2

\* dispose() is called at most this many times on an instance
MaxDisposeCalls == 1

\* keyframes created on one TimelineTool
MaxKeyFrames == 3

\* intervals setInterval makes for one TimelineTool
MaxIntervals == 2

\* the largest value fetchWithRetry is given for retries
MaxRetries == 3

\* CadModelMetadata: blobUrl, modelMatrix, scene.getAllSectors() (each sector
\* given by its id)
CadModelMetadata(blobUrl, modelMatrix, sectors) ==
    [blobUrl |-> blobUrl, modelMatrix |-> modelMatrix, sectors |-> sectors]

\* the models callers pass: two keys, each seen with two transforms, and
\* sector lists of zero, one and two sectors
Models ==
    {CadModelMetadata("a", 0, <<0>>),
     CadModelMetadata("a", 1, <<>>),
     CadModelMetadata("b", 0, <<0>>),
     CadModelMetadata("b", 1, <<0, 1>>)}

\* render-target sizes <<width, height>> an instance is constructed with
RenderSizes == {<<1, 1>>, <<2, 1>>, <<1, 3>>}

\* the lists setModels is called with: up to MaxModels models, no model object
\* twice (two models of a list may still carry the same blobUrl)
ModelLists ==
    {models \in UNION {[1..n -> Models] : n \in 0..MaxModels} :
        \A i \in DOMAIN models : \A j \in DOMAIN models :
            models[i] = models[j] => i = j}

\* models whose getAllSectors() gives the sectors in another order than that
\* of their ids, or with an id at or above the number of sectors
ModelsBySectorIds ==
    {CadModelMetadata("c", 0, <<0, 1>>),
     CadModelMetadata("c", 0, <<1, 0>>),
     CadModelMetadata("c", 0, <<0, 2>>)}

----------------------------------------------------------------------------
(* Helpers over the insertion-ordered Map and the scene's child list *)

Range(s) == {s[i] : i \in DOMAIN s}

Keys(cs) == {cs[i].key : i \in DOMAIN cs}

HasKey(cs, k) == \E i \in DOMAIN cs : cs[i].key = k

Get(cs, k) == cs[CHOOSE i \in DOMAIN cs : cs[i].key = k]

Without(s, x) == SelectSeq(s, LAMBDA e : e # x)

\* a new THREE object gets a handle no live object has
FreshHandle(sc, objs) ==
    CHOOSE h \in 0..(Cardinality(DOMAIN objs) + Len(sc)) :
        /\ h \notin DOMAIN objs
        /\ h \notin Range(sc)
        /\ \A g \in 0..(h - 1) : g \in DOMAIN objs \/ g \in Range(sc)

----------------------------------------------------------------------------
(* createSectorTreeMesh: one instance slot per sector; the slot written for *)
(* a sector is the one at its id, and carries sectorIdOffset + id.  Slots   *)
(* no sector writes keep the zero the arrays were allocated with, and a     *)
(* write past the end of the typed arrays is dropped.                       *)

createSectorTreeMesh(offset, sectors, modelMatrix) ==
    [matrix    |-> modelMatrix,
     instances |-> [k \in 1..Len(sectors) |->
                      IF \E j \in DOMAIN sectors : sectors[j] = k - 1
                      THEN [a_sectorId |-> offset + (k - 1), drawn |-> TRUE]
                      ELSE [a_sectorId |-> 0, drawn |-> FALSE]]]

\* the record addModel leaves, given the running id total it ends with
Added(st, model, total) ==
    LET sectors == model.sectors
        mesh    == createSectorTreeMesh(st.sectorIdOffset, sectors, model.modelMatrix)
        h       == FreshHandle(st.scene, st.objects)
    IN  [containers     |-> Append(st.containers,
                                   [key            |-> model.blobUrl,
                                    model          |-> model,
                                    sectors        |-> sectors,
                                    sectorIdOffset |-> st.sectorIdOffset,
                                    renderable     |-> h]),
         sectorIdOffset |-> total,
         scene          |-> Append(st.scene, h),
         objects        |-> [x \in DOMAIN st.objects \cup {h} |->
                               IF x = h THEN mesh ELSE st.objects[x]],
         registered     |-> Append(st.registered,
                                   [key         |-> model.blobUrl,
                                    sectorCount |-> Len(sectors),
                                    offset      |-> st.sectorIdOffset])]

\* addModel without 'this.sectorIdOffset += sectors.length'
addModelNoAdvance(st, model) == Added(st, model, st.sectorIdOffset)

\* addModel advancing the total by one id too many
addModelGap(st, model) == Added(st, model, st.sectorIdOffset + Len(model.sectors) + 1)

\* st: [containers, sectorIdOffset, scene, objects, registered]
addModel(st, model) == Added(st, model, st.sectorIdOffset + Len(model.sectors))

\* the record removeModel leaves, given the scene and the total it ends with
Removed(st, modelIdentifier, sceneAfter, total) ==
    LET container == Get(st.containers, modelIdentifier)
    IN  [st EXCEPT
            !.scene          = sceneAfter,
            !.sectorIdOffset = total,
            !.containers     = SelectSeq(st.containers,
                                         LAMBDA c : c.key # modelIdentifier),
            !.objects        = [x \in (DOMAIN st.objects \ {container.renderable})
                                       \cup Range(sceneAfter) |-> st.objects[x]]]

\* removeModel giving the removed range back to the id space
removeModelReclaim(st, modelIdentifier) ==
    LET container == Get(st.containers, modelIdentifier)
    IN  Removed(st, modelIdentifier, Without(st.scene, container.renderable),
                st.sectorIdOffset - Len(container.sectors))

\* removeModel without 'this.scene.remove(container.renderable)'
removeModelKeepProxy(st, modelIdentifier) ==
    Removed(st, modelIdentifier, st.scene, st.sectorIdOffset)

\* the container exists whenever setModels calls this (it iterates the keys)
removeModel(st, modelIdentifier) ==
    LET container == Get(st.containers, modelIdentifier)
    IN  Removed(st, modelIdentifier, Without(st.scene, container.renderable),
                st.sectorIdOffset)

\* updateModel rebuilding the proxy: the model is removed and added again
updateModelReAdd(st, container, model) ==
    addModel(removeModel(st, container.key), model)

\* updateModel also taking the sector list of the model passed
updateModelTakeSectors(st, container, model) ==
    [st EXCEPT !.containers =
        [i \in DOMAIN st.containers |->
            IF st.containers[i].key = container.key
            THEN [st.containers[i] EXCEPT !.sectors = model.sectors]
            ELSE st.containers[i]]]

updateModel(st, container, model) ==
    [st EXCEPT !.objects =
        [x \in DOMAIN st.objects |->
            IF x = container.renderable
            THEN [st.objects[x] EXCEPT !.matrix = model.modelMatrix]
            ELSE st.objects[x]]]

RECURSIVE AddOrUpdateAll(_, _, _)
AddOrUpdateAll(st, models, i) ==
    IF i > Len(models) THEN st
    ELSE LET model == models[i]
             next  == IF HasKey(st.containers, model.blobUrl)
                      THEN updateModel(st, Get(st.containers, model.blobUrl), model)
                      ELSE addModel(st, model)
         IN  AddOrUpdateAll(next, models, i + 1)

RECURSIVE RemoveAll(_, _, _)
RemoveAll(st, identifiers, i) ==
    IF i > Len(identifiers) THEN st
    ELSE RemoveAll(removeModel(st, identifiers[i]), identifiers, i + 1)

\* setModels without the loop over discardIdentifiers
setModelsKeepAll(st, models) == AddOrUpdateAll(st, models, 1)

setModels(st, models) ==
    LET keepModelIdentifiers == {models[i].blobUrl : i \in DOMAIN models}
        afterLoop            == AddOrUpdateAll(st, models, 1)
        allIdentifiers       == [i \in DOMAIN afterLoop.containers |->
                                    afterLoop.containers[i].key]
        discardIdentifiers   == SelectSeq(allIdentifiers,
                                          LAMBDA x : x \notin keepModelIdentifiers)
    IN  RemoveAll(afterLoop, discardIdentifiers, 1)

State ==
    [containers     |-> containers,
     sectorIdOffset |-> sectorIdOffset,
     scene          |-> scene,
     objects        |-> objects,
     registered     |-> registered]

----------------------------------------------------------------------------
(* Fixed-point arithmetic for the weight function: a real v is held as the   *)
(* integer v * Scale, rounded down.                                          *)

Scale == 1000

RECURSIVE SqrtBetween(_, _, _)
\* the largest r in lo..hi with r * r <= v
SqrtBetween(v, lo, hi) ==
    IF lo >= hi THEN lo
    ELSE LET mid == (lo + hi + 1) \div 2
         IN  IF mid * mid <= v THEN SqrtBetween(v, mid, hi)
             ELSE SqrtBetween(v, lo, mid - 1)

\* Math.sqrt of the fixed-point s
Sqrt(s) == SqrtBetween(s * Scale, 0, 40000)

RECURSIVE ExpSeries(_, _)
\* Horner form of the series 1 - f/1 * (1 - f/2 * (1 - f/3 * ...)), 8 terms
ExpSeries(f, k) ==
    IF k > 8 THEN Scale
    ELSE Scale - (f * ExpSeries(f, k + 1)) \div (k * Scale)

RECURSIVE ExpNeg(_)
\* Math.exp(-t) of the fixed-point t >= 0: e^-1 per whole unit, the series for the rest
ExpNeg(t) ==
    IF t >= Scale THEN (368 * ExpNeg(t - Scale)) \div Scale
    ELSE ExpSeries(t, 1)

\* function weight(x, y) of unpackSectorVisibility
weight(x, y) ==
    LET s == (x * x + y * y) \div Scale
    IN  (5 * (25 * (Scale \div 10) - s)) \div 10 + ExpNeg(Sqrt(s))

\* ry and rx as unpackSectorVisibility computes them for the pixel in row y:
\* (y - height / 2) / halfHeight and (y - halfWidth) / halfWidth
RowRy(y, height) == ((2 * y - height) * Scale) \div height
RowRx(y, width) == ((2 * y - width) * Scale) \div width

\* the weight added for a pixel of row y, for every size and row the model uses
PixelWeight ==
    [size \in RenderSizes |->
        [y \in 0..(size[2] - 1) |-> weight(RowRx(y, size[1]), RowRy(y, size[2]))]]

----------------------------------------------------------------------------
(* The coverage render pass and the read-back *)

Background == [r |-> 255, g |-> 255, b |-> 255, a |-> 255]

\* the fragment shader's packing of a proxy instance's id and depth
Fragment(id, depth) ==
    [r |-> id \div (255 * 255), g |-> (id \div 255) % 255, b |-> id % 255, a |-> depth]

\* ids of the proxy instances the scene draws
SceneIds ==
    UNION {{objects[h].instances[k].a_sectorId :
                k \in {j \in DOMAIN objects[h].instances : objects[h].instances[j].drawn}} :
           h \in {o \in Range(scene) : o \in DOMAIN objects}}

\* null, and an array, as the values of a field or an argument that holds either
Null == [null |-> TRUE]

Array(items) == [null |-> FALSE, items |-> items]

\* a THREE.Plane, given by what it does to the proxy geometry the camera sees:
\* it cuts all of it away, or none of it
Plane(cutsView) == [cutsView |-> cutsView]

\* the values of the planes argument of setClipping
PlaneLists ==
    {Null,
     Array(<<Plane(TRUE)>>),
     Array(<<Plane(TRUE), Plane(FALSE)>>)}

\* new THREE.ShaderMaterial: clippingPlanes null, clipIntersection false
NewMaterial == [clippingPlanes |-> Null, clipIntersection |-> FALSE]

\* local clipping as the renderer applies it to a material: a fragment is
\* discarded when one of the planes cuts it away or, with clipIntersection,
\* when all of them do; no plane, no clipping
ClipsView(material) ==
    /\ material.clippingPlanes # Null
    /\ LET planes == material.clippingPlanes.items
       IN  /\ Len(planes) > 0
           /\ IF material.clipIntersection
              THEN \A i \in DOMAIN planes : planes[i].cutsView
              ELSE \E i \in DOMAIN planes : planes[i].cutsView

\* ids of the proxy instances the pass can draw with the clipping of the material
VisibleIds == IF ClipsView(coverageMaterial) THEN {} ELSE SceneIds

\* what one pixel can show after _renderer.render on a context with the clear
\* colour given: that colour, or a fragment of one of the proxy instances at
\* some depth
PixelValuesOver(clearColor) ==
    {clearColor} \cup {Fragment(id, d) : id \in VisibleIds, d \in 0..MaxDepth}

\* with the clear colour the constructor sets
PixelValues == PixelValuesOver(Background)

\* the frames a render can leave in the target, row-major (pixel x + width * y
\* is at position x + width * y + 1)
FramesOver(clearColor) ==
    [1..(renderTarget.width * renderTarget.height) -> PixelValuesOver(clearColor)]

Frames == FramesOver(Background)

\* clear colours the owner of options.glContext sets on it: glContext.clearColor(
\* 0, 0, id / 255, 0) stores the id in every pixel no proxy covers
ContextClearColors == {Fragment(id, 0) : id \in 0..MaxClearId}

\* contents of the buffer readRenderTargetPixels fills, byte by byte: the clear
\* colour of the constructor, and pixels with the green and blue bytes at the
\* ends of the byte range
ReadBackPixels ==
    {Background}
    \cup {[r |-> 0, g |-> 0, b |-> b, a |-> 0] : b \in {0, 254, 255}}
    \cup {[r |-> 0, g |-> 1, b |-> b, a |-> 0] : b \in {0, 1}}

\* the values of the options argument of createDebugCanvas
DebugCanvasOptions == {Null, [width |-> 2, height |-> 2], [width |-> 4, height |-> 3]}

Min(a, b) == IF a <= b THEN a ELSE b

\* the entries of a sparse array at the indices of the set, in index order (the
\* order in which reduce, filter and sort visit them; holes are skipped)
RECURSIVE EntriesAt(_, _)
EntriesAt(arr, indices) ==
    IF indices = {} THEN <<>>
    ELSE LET first == CHOOSE i \in indices : \A j \in indices : i <= j
         IN  <<arr[first]>> \o EntriesAt(arr, indices \ {first})

Entries(arr) == EntriesAt(arr, DOMAIN arr)

\* prepareBuffers without the loop that blanks the weights
prepareBuffersKeepWeights(bufs) ==
    LET pixels == renderTarget.width * renderTarget.height
    IN  [rtBuffer |->
            IF Len(bufs.rtBuffer) < pixels
            THEN [i \in 1..pixels |-> [r |-> 0, g |-> 0, b |-> 0, a |-> 0]]
            ELSE bufs.rtBuffer,
         sectorVisibilityBuffer |-> bufs.sectorVisibilityBuffer]

prepareBuffers(bufs) ==
    LET pixels == renderTarget.width * renderTarget.height
    IN  [rtBuffer |->
            IF Len(bufs.rtBuffer) < pixels
            THEN [i \in 1..pixels |-> [r |-> 0, g |-> 0, b |-> 0, a |-> 0]]
            ELSE bufs.rtBuffer,
         sectorVisibilityBuffer |->
            [i \in DOMAIN bufs.sectorVisibilityBuffer |->
                [bufs.sectorVisibilityBuffer[i] EXCEPT !.weight = 0]]]

\* readRenderTargetPixels: the frame overwrites the first width * height pixels
readRenderTargetPixels(frame, rtBuffer) ==
    [i \in DOMAIN rtBuffer |-> IF i \in DOMAIN frame THEN frame[i] ELSE rtBuffer[i]]

\* the test of unpackSectorVisibility against a pixel of another colour
NotBackgroundBlack(r, g, b) == r # 0 \/ g # 0 \/ b # 0

\* 'r !== 255 || g !== 255 || b !== 255'
NotBackground(r, g, b) == r # 255 \/ g # 255 \/ b # 255

\* the decode with 256 as the base of the bytes
sectorIdWithOffsetBase256(r, g, b) == b + g * 256 + r * 256 * 256

\* 'const sectorIdWithOffset = b + g * 255 + r * 255 * 255'
sectorIdWithOffsetOf(r, g, b) == b + g * 255 + r * 255 * 255

RECURSIVE unpackFrom(_, _, _, _, _)
\* the two loops of unpackSectorVisibility, from pixel i = x + width * y on
unpackFrom(i, renderTargetWidth, renderTargetHeight, renderTargetBuffer, sectorVisibility) ==
    IF i >= renderTargetWidth * renderTargetHeight THEN sectorVisibility
    ELSE LET y        == i \div renderTargetWidth
             p        == renderTargetBuffer[i + 1]
             distance == p.a
             sectorIdWithOffset == sectorIdWithOffsetOf(p.r, p.g, p.b)
             old      == IF sectorIdWithOffset \in DOMAIN sectorVisibility
                         THEN sectorVisibility[sectorIdWithOffset]
                         ELSE [sectorIdWithOffset |-> sectorIdWithOffset,
                               weight |-> 0, distance |-> distance]
             value    == [sectorIdWithOffset |-> old.sectorIdWithOffset,
                          weight   |-> old.weight
                                       + PixelWeight[<<renderTargetWidth,
                                                       renderTargetHeight>>][y],
                          distance |-> Min(old.distance, distance)]
             next     == IF NotBackground(p.r, p.g, p.b)
                         THEN [k \in DOMAIN sectorVisibility \cup {sectorIdWithOffset} |->
                                  IF k = sectorIdWithOffset THEN value
                                  ELSE sectorVisibility[k]]
                         ELSE sectorVisibility
         IN  unpackFrom(i + 1, renderTargetWidth, renderTargetHeight,
                        renderTargetBuffer, next)

\* sectorVisibility is this.buffers.sectorVisibilityBuffer
unpackSectorVisibility(renderTargetWidth, renderTargetHeight, renderTargetBuffer, sectorVisibility) ==
    unpackFrom(0, renderTargetWidth, renderTargetHeight, renderTargetBuffer,
               sectorVisibility)

\* findSectorContainer returning the last container when no range holds the id
findSectorContainerOrLast(cs, sectorIdWithOffset) ==
    LET hits == {i \in DOMAIN cs :
                    /\ sectorIdWithOffset >= cs[i].sectorIdOffset
                    /\ sectorIdWithOffset < cs[i].sectorIdOffset + Len(cs[i].sectors)}
    IN  IF hits = {} THEN Len(cs)
        ELSE CHOOSE i \in hits : \A j \in hits : i <= j

\* index of the first container, in Map order, whose range holds the id; 0 when
\* none does (the code throws 'Sector ID ... is out of range')
findSectorContainer(cs, sectorIdWithOffset) ==
    LET hits == {i \in DOMAIN cs :
                    /\ sectorIdWithOffset >= cs[i].sectorIdOffset
                    /\ sectorIdWithOffset < cs[i].sectorIdOffset + Len(cs[i].sectors)}
    IN  IF hits = {} THEN 0
        ELSE CHOOSE i \in hits : \A j \in hits : i <= j

RECURSIVE SumWeights(_)
SumWeights(s) == IF s = <<>> THEN 0 ELSE Head(s).weight + SumWeights(Tail(s))

\* Array.prototype.sort with the comparator right.weight - left.weight (a stable
\* sort: entries of equal weight keep their order)
RECURSIVE InsertByWeight(_, _)
InsertByWeight(sorted, x) ==
    IF sorted = <<>> THEN <<x>>
    ELSE IF Head(sorted).weight < x.weight THEN <<x>> \o sorted
    ELSE <<Head(sorted)>> \o InsertByWeight(Tail(sorted), x)

RECURSIVE SortByWeight(_)
SortByWeight(s) ==
    IF s = <<>> THEN <<>>
    ELSE InsertByWeight(SortByWeight(SubSeq(s, 1, Len(s) - 1)), s[Len(s)])

\* step 5 of orderSectorsByVisibility; priority is the quotient weight / totalWeight,
\* kept as its two operands
rank(cs, sectorVisibility) ==
    LET all         == Entries(sectorVisibility)
        totalWeight == SumWeights(all)
        sorted      == SortByWeight(SelectSeq(all, LAMBDA x : x.weight > 0))
        threw       == \E i \in DOMAIN sorted :
                          findSectorContainer(cs, sorted[i].sectorIdWithOffset) = 0
    IN  [threw  |-> threw,
         result |->
            IF threw THEN <<>>
            ELSE [i \in DOMAIN sorted |->
                    LET x         == sorted[i]
                        container == cs[findSectorContainer(cs, x.sectorIdWithOffset)]
                    IN  [model    |-> container.model,
                         sectorId |-> x.sectorIdWithOffset - container.sectorIdOffset,
                         priority |-> [num |-> x.weight, den |-> totalWeight],
                         depth    |-> x.distance]]]

\* ids the pixels of a frame decode to, background left out
IdsIn(frame) ==
    {frame[i].b + frame[i].g * 255 + frame[i].r * 255 * 255 :
        i \in {k \in DOMAIN frame : NotBackground(frame[k].r, frame[k].g, frame[k].b)}}

\* 'this.debugRenderer.render(this.scene, camera)': the canvas of the debug
\* renderer shows what the camera sees; without a debug renderer, nothing
debugRender(dbg, frame) ==
    IF dbg = Null THEN dbg ELSE [dbg EXCEPT !.domElement = IdsIn(frame)]

\* 'if (this.debugRenderer)': the debug pass is a step of the call only then
debugSteps(dbg) == IF dbg = Null THEN <<>> ELSE <<"debugRender">>

\* the steps after the primary pass with the weights blanked after the decode
readBackAndRankResetLast(cs, bufs, target) ==
    LET sized    == prepareBuffersKeepWeights(bufs)
        rtBuffer == readRenderTargetPixels(target, sized.rtBuffer)
        decoded  ==
            unpackSectorVisibility(renderTarget.width, renderTarget.height,
                                   rtBuffer, sized.sectorVisibilityBuffer)
        sectorVisibility ==
            [i \in DOMAIN decoded |-> [decoded[i] EXCEPT !.weight = 0]]
        ranked   == rank(cs, sectorVisibility)
    IN  [buffers |-> [rtBuffer |-> rtBuffer,
                      sectorVisibilityBuffer |-> sectorVisibility],
         steps   |-> <<"readRenderTargetPixels", "unpackSectorVisibility",
                       "prepareBuffers", "rank">>,
         threw   |-> ranked.threw,
         result  |-> ranked.result]

\* steps 2 to 5 of orderSectorsByVisibility, on what the primary pass has left
\* in the render target; steps: the calls made, in their order
readBackAndRank(cs, bufs, target) ==
    LET prepared == prepareBuffers(bufs)
        rtBuffer == readRenderTargetPixels(target, prepared.rtBuffer)
        sectorVisibility ==
            unpackSectorVisibility(renderTarget.width, renderTarget.height,
                                   rtBuffer, prepared.sectorVisibilityBuffer)
        ranked   == rank(cs, sectorVisibility)
    IN  [buffers |-> [rtBuffer |-> rtBuffer,
                      sectorVisibilityBuffer |-> sectorVisibility],
         steps   |-> <<"prepareBuffers", "readRenderTargetPixels",
                       "unpackSectorVisibility", "rank">>,
         threw   |-> ranked.threw,
         result  |-> ranked.result]

\* what the render target held before the primary pass: the frame of the query
\* before, or the clear colour
LastFrame(bufs, frame) ==
    [i \in DOMAIN frame |->
        IF i \in DOMAIN bufs.rtBuffer THEN bufs.rtBuffer[i] ELSE Background]

\* orderSectorsByVisibility with the primary pass before the debug pass, which
\* makes step 3 read the frame of the query before
orderSectorsByVisibilityDebugLast(dbg, cs, bufs, frame) ==
    LET out == readBackAndRank(cs, bufs, IF dbg = Null THEN frame
                                         ELSE LastFrame(bufs, frame))
    IN  [debugRenderer |-> debugRender(dbg, frame),
         buffers       |-> out.buffers,
         steps         |-> <<"render">> \o debugSteps(dbg) \o out.steps,
         threw         |-> out.threw,
         result        |-> out.result]

\* frame: what the camera sees of the scene, as the passes draw it
orderSectorsByVisibility(dbg, cs, bufs, frame) ==
    LET out == readBackAndRank(cs, bufs, frame)
    IN  [debugRenderer |-> debugRender(dbg, frame),
         buffers       |-> out.buffers,
         steps         |-> debugSteps(dbg) \o <<"render">> \o out.steps,
         threw         |-> out.threw,
         result        |-> out.result]

----------------------------------------------------------------------------

(* TimelineTool *)

\* a Date object: '===' compares the objects, '>=' and getTime() their times
Date(id, time) == [id |-> id, time |-> time]

\* the Date objects callers pass; two of them are of one time
DateObjects == {Date(1, 1), Date(2, 2), Date(3, 2)}

\* new TimelineKeyframe(model, date, nodeCollection, nodeAppearance)
TimelineKeyframe(date, nodeCollection) ==
    [date |-> date, nodeCollection |-> nodeCollection]

\* the constructor; currentDate is 'new Date()'.  timers: the intervals
\* setInterval has made and clearInterval has not cleared, each with the
\* endDate its callback holds; styled: the node collections assigned to the
\* model; intervals: the number of intervals setInterval has made, the id of
\* the last one
NewTimelineTool ==
    [timelineframes |-> <<>>,
     allDates       |-> <<>>,
     intervalId     |-> 0,
     currentDate    |-> Date(0, 0),
     timers         |-> {},
     styled         |-> {},
     intervals      |-> 0]

\* the node collection of the n-th keyframe created is collection n
createKeyFrame(tl, date, nodeCollection) ==
    [tl EXCEPT !.timelineframes = Append(@, TimelineKeyframe(date, nodeCollection)),
               !.allDates       = Append(@, date)]

\* findIndex(obj => obj.getTimelineFrameDate() === date), from 1; 0 for -1
findIndex(timelineframes, date) ==
    LET hits == {i \in DOMAIN timelineframes : timelineframes[i].date = date}
    IN  IF hits = {} THEN 0 ELSE CHOOSE i \in hits : \A j \in hits : i <= j

\* splice(index, 1) returns the array of the elements it has removed
removeKeyFrame(tl, date) ==
    IF Len(tl.timelineframes) > 0
    THEN LET index == findIndex(tl.timelineframes, date)
         IN  IF index > 0
             THEN [tl EXCEPT !.timelineframes = <<tl.timelineframes[index]>>]
             ELSE tl
    ELSE tl

\* Array.prototype.sort by getTime(), stable
RECURSIVE InsertByDate(_, _)
InsertByDate(sorted, frame) ==
    IF sorted = <<>> THEN <<frame>>
    ELSE IF Head(sorted).date.time > frame.date.time THEN <<frame>> \o sorted
    ELSE <<Head(sorted)>> \o InsertByDate(Tail(sorted), frame)

RECURSIVE sortTimelineFramesByDates(_)
sortTimelineFramesByDates(timelineframes) ==
    IF timelineframes = <<>> THEN <<>>
    ELSE InsertByDate(
            sortTimelineFramesByDates(SubSeq(timelineframes, 1, Len(timelineframes) - 1)),
            timelineframes[Len(timelineframes)])

\* reduce((prev, curr) => date >= curr.getTimelineFrameDate() ? curr : prev):
\* the index of the last keyframe after the first that is not later than date,
\* or 1
closestIndex(timelineframes, date) ==
    LET hits == {i \in DOMAIN timelineframes :
                    i > 1 /\ date.time >= timelineframes[i].date.time}
    IN  IF hits = {} THEN 1 ELSE CHOOSE i \in hits : \A j \in hits : j <= i

\* the index styleByDate styles at, from 1
currentIndexOf(timelineframes, date) ==
    IF findIndex(timelineframes, date) # 0 THEN findIndex(timelineframes, date)
    ELSE closestIndex(timelineframes, date)

setNextDate(tl, index) ==
    IF index < Len(tl.timelineframes)
    THEN [tl EXCEPT !.currentDate = tl.timelineframes[index + 1].date]
    ELSE tl

styleByDate(tl, date) ==
    IF Len(tl.timelineframes) > 0
    THEN LET currentIndex     == currentIndexOf(tl.timelineframes, date)
             currentTimeframe == tl.timelineframes[currentIndex]
             deactivated      ==
                 IF currentIndex > 1
                 THEN tl.styled \ {tl.timelineframes[currentIndex - 1].nodeCollection}
                 ELSE tl.styled
         IN  setNextDate([tl EXCEPT !.styled = deactivated
                                              \cup {currentTimeframe.nodeCollection}],
                         currentIndex)
    ELSE tl

stopPlayback(tl) ==
    IF tl.intervalId # 0
    THEN [tl EXCEPT !.timers = {timer \in tl.timers : timer.id # tl.intervalId},
                    !.intervalId = 0]
    ELSE tl

\* setInterval returns a positive id it has not returned before
FreshInterval(tl) == tl.intervals + 1

\* durationInMilliSeconds sets the pace of the timer, which the model leaves open
play(tl, startDate, endDate) ==
    LET stopped == stopPlayback(tl)
        sorted  == [stopped EXCEPT
                       !.timelineframes = sortTimelineFramesByDates(@),
                       !.currentDate    = startDate]
        styled  == styleByDate(sorted, sorted.currentDate)
        id      == FreshInterval(styled)
    IN  [styled EXCEPT !.timers     = @ \cup {[id |-> id, endDate |-> endDate]},
                       !.intervals  = id,
                       !.intervalId = id]

\* the callback play hands to setInterval, with the endDate it holds
onInterval(tl, endDate) ==
    IF tl.currentDate # endDate
    THEN styleByDate(tl, tl.currentDate)
    ELSE stopPlayback(tl)

----------------------------------------------------------------------------
(* fetchWithRetry *)

\* the value of a variable nothing was assigned to
Undefined == [undefined |-> TRUE]

\* 'retries: number = 3'
DefaultRetries == 3

\* the urls getBinaryFile builds
Urls == {"baseUrl/a", "baseUrl/b"}

\* what one fetch settles with: a response, or the error it rejects with
Responses == {[response |-> body] : body \in {"r1", "r2"}}
Errors == {[error |-> message] : message \in {"e1", "e2", "e3"}}

\* no call made yet
NoRequest ==
    [pc |-> "none", input |-> "", retries |-> 0, i |-> 0, error |-> Undefined,
     attempts |-> <<>>, outcome |-> Undefined]

\* the for loop up to its next await, or to the throw behind it
fetchLoop(req) ==
    IF req.i < req.retries
    THEN [req EXCEPT !.pc = "fetch"]
    ELSE [req EXCEPT !.pc = "threw", !.outcome = req.error]

\* the call up to the first await
fetchWithRetry(input, retries) ==
    fetchLoop([pc |-> "fetch", input |-> input, retries |-> retries, i |-> 0,
               error |-> Undefined, attempts |-> <<>>, outcome |-> Undefined])

\* 'if (error !== undefined) { error = err; }'
keepFirstError(error, err) == IF error # Undefined THEN err ELSE error

\* the fetch awaited settles: a response is returned, an error is caught and
\* the loop goes on
fetchSettled(req, settled) ==
    LET tried == [req EXCEPT !.attempts = Append(@, settled)]
    IN  IF settled \in Responses
        THEN [tried EXCEPT !.pc = "returned", !.outcome = settled]
        ELSE fetchLoop([tried EXCEPT !.error = keepFirstError(req.error, settled),
                                     !.i     = req.i + 1])

----------------------------------------------------------------------------

\* the GPU resources the constructor and createDebugCanvas make
Resources == {"_renderer", "renderTarget", "debugRenderer"}

New ==
    [containers     |-> <<>>,
     sectorIdOffset |-> 0,
     scene          |-> <<>>,
     objects        |-> <<>>,
     registered     |-> <<>>]

\* the constructor, with options.renderSize = size, followed by the setModels
\* calls of setup, one per list of modelLists
Constructed(size, modelLists) ==
    LET st == IF Len(modelLists) = 0 THEN New
              ELSE IF Len(modelLists) = 1 THEN setModels(New, modelLists[1])
              ELSE setModels(setModels(New, modelLists[1]), modelLists[2])
    IN  /\ st.sectorIdOffset <= MaxIdTotal
        /\ Len(st.registered) <= MaxRegistrations
        /\ sectorIdOffset = st.sectorIdOffset
        /\ containers = st.containers
        /\ scene = st.scene
        /\ objects = st.objects
        /\ registered = st.registered
        /\ renderTarget = [width |-> size[1], height |-> size[2]]
        /\ buffers = [rtBuffer |-> <<>>, sectorVisibilityBuffer |-> <<>>]
        /\ lastCall = [op |-> "new"]
        /\ coverageMaterial = NewMaterial
        /\ configured = NewMaterial
        /\ debugRenderer = Null
        /\ released = [resource \in Resources |-> 0]
        /\ timeline = NewTimelineTool
        /\ request = NoRequest

Init == \E size \in RenderSizes : Constructed(size, <<>>)

SetModelsWith(models) ==
        LET st == setModels(State, models)
        IN  /\ st.sectorIdOffset <= MaxIdTotal
            /\ Len(st.registered) <= MaxRegistrations
            /\ containers' = st.containers
            /\ sectorIdOffset' = st.sectorIdOffset
            /\ scene' = st.scene
            /\ objects' = st.objects
            /\ registered' = st.registered
            /\ lastCall' = [op       |-> "setModels",
                            models   |-> models,
                            repeated |-> /\ lastCall.op = "setModels"
                                         /\ lastCall.models = models]
            /\ UNCHANGED <<renderTarget, buffers, surfaces, helpers>>

SetModels == \E models \in ModelLists : SetModelsWith(models)

\* setModels([])
ClearModels == SetModelsWith(<<>>)

\* a query with a camera that sees the frame
OrderSectorsWith(frame) ==
    \E out \in {orderSectorsByVisibility(debugRenderer, containers, buffers, frame)} :
        /\ buffers' = out.buffers
        /\ debugRenderer' = out.debugRenderer
        /\ lastCall' = [op       |-> "orderSectorsByVisibility",
                        camera   |-> frame,
                        clipping |-> coverageMaterial,
                        clippedAfterHit |-> /\ lastCall.op = "setClipping"
                                            /\ lastCall.afterHit
                                            /\ ClipsView(coverageMaterial),
                        steps    |-> out.steps,
                        threw    |-> out.threw,
                        result   |-> out.result]
        /\ UNCHANGED <<registry, renderTarget, coverageMaterial, configured, released,
                       helpers>>

OrderSectorsByVisibility == \E frame \in Frames : OrderSectorsWith(frame)

\* a query on a GL context whose clear colour its owner has set after the
\* constructor: the pixels no proxy covers read back as that colour
OrderSectorsOnClearColor ==
    \E clearColor \in ContextClearColors :
        \E frame \in FramesOver(clearColor) : OrderSectorsWith(frame)

\* a query whose read-back is any buffer of ReadBackPixels
OrderSectorsOnPixels ==
    \E frame \in [1..(renderTarget.width * renderTarget.height) -> ReadBackPixels] :
        OrderSectorsWith(frame)

\* setClipping storing the flag only
setClippingFlagOnly(material, planes, clipIntersection) ==
    [material EXCEPT !.clipIntersection = clipIntersection]

\* setClipping storing the planes only
setClippingPlanesOnly(material, planes, clipIntersection) ==
    [material EXCEPT !.clippingPlanes = planes]

setClipping(material, planes, clipIntersection) ==
    [material EXCEPT !.clippingPlanes = planes,
                     !.clipIntersection = clipIntersection]

SetClipping ==
    \E planes \in PlaneLists, clipIntersection \in BOOLEAN :
        /\ coverageMaterial' = setClipping(coverageMaterial, planes, clipIntersection)
        /\ configured' = [clippingPlanes |-> planes,
                          clipIntersection |-> clipIntersection]
        /\ lastCall' = [op       |-> "setClipping",
                        afterHit |-> \/ /\ lastCall.op = "orderSectorsByVisibility"
                                        /\ ~lastCall.threw
                                        /\ lastCall.result # <<>>
                                     \/ /\ lastCall.op = "setClipping"
                                        /\ lastCall.afterHit]
        /\ UNCHANGED <<registry, renderTarget, buffers, debugRenderer, released,
                       helpers>>

\* createDebugCanvas making a new renderer on every call
createDebugCanvasAgain(dbg, options) ==
    LET width  == IF options # Null THEN options.width ELSE renderTarget.width
        height == IF options # Null THEN options.height ELSE renderTarget.height
    IN  [threw         |-> FALSE,
         debugRenderer |-> [width |-> width, height |-> height, domElement |-> {}]]

\* dbg: this.debugRenderer; threw: 'createDebugCanvas() can only be called once'
createDebugCanvas(dbg, options) ==
    IF dbg # Null THEN [threw |-> TRUE, debugRenderer |-> dbg]
    ELSE LET width  == IF options # Null THEN options.width ELSE renderTarget.width
             height == IF options # Null THEN options.height ELSE renderTarget.height
         IN  [threw         |-> FALSE,
              debugRenderer |-> [width |-> width, height |-> height,
                                 domElement |-> {}]]

CreateDebugCanvas ==
    \E options \in DebugCanvasOptions :
        LET out == createDebugCanvas(debugRenderer, options)
        IN  /\ debugRenderer' = out.debugRenderer
            /\ lastCall' = [op      |-> "createDebugCanvas",
                            options |-> options,
                            threw   |-> out.threw,
                            first   |-> debugRenderer = Null]
            /\ UNCHANGED <<registry, renderTarget, buffers, coverageMaterial,
                           configured, released, helpers>>

\* dispose(): the renderer and, if there is one, the debug renderer
dispose(counts, dbg) ==
    [resource \in Resources |->
        IF resource = "_renderer" \/ (resource = "debugRenderer" /\ dbg # Null)
        THEN counts[resource] + 1
        ELSE counts[resource]]

Dispose ==
    /\ released["_renderer"] < MaxDisposeCalls
    /\ released' = dispose(released, debugRenderer)
    /\ lastCall' = [op |-> "dispose"]
    /\ UNCHANGED <<registry, renderTarget, buffers, coverageMaterial, configured,
                   debugRenderer, helpers>>

CreateKeyFrame ==
    /\ Len(timeline.allDates) < MaxKeyFrames
    /\ \E date \in DateObjects :
          timeline' = createKeyFrame(timeline, date, Len(timeline.allDates) + 1)
    /\ lastCall' = [op |-> "createKeyFrame"]
    /\ UNCHANGED <<instance, request>>

RemoveKeyFrame ==
    \E date \in DateObjects :
        /\ timeline' = removeKeyFrame(timeline, date)
        /\ lastCall' = [op |-> "removeKeyFrame", date |-> date,
                        before |-> timeline.timelineframes]
        /\ UNCHANGED <<instance, request>>

Play ==
    \E startDate \in DateObjects, endDate \in DateObjects :
        /\ timeline.intervals < MaxIntervals
        /\ timeline' = play(timeline, startDate, endDate)
        /\ lastCall' = [op |-> "play", startDate |-> startDate, endDate |-> endDate]
        /\ UNCHANGED <<instance, request>>

\* an interval in use fires
OnInterval ==
    \E timer \in timeline.timers :
        /\ timeline' = onInterval(timeline, timer.endDate)
        /\ lastCall' = [op |-> "onInterval"]
        /\ UNCHANGED <<instance, request>>

StopPlayback ==
    /\ timeline' = stopPlayback(timeline)
    /\ lastCall' = [op |-> "stopPlayback"]
    /\ UNCHANGED <<instance, request>>

\* getBinaryFile, or another caller, calls fetchWithRetry; one call at a time
FetchWithRetry ==
    /\ request.pc # "fetch"
    /\ \E input \in Urls, retries \in (0..MaxRetries) \cup {DefaultRetries} :
          request' = fetchWithRetry(input, retries)
    /\ lastCall' = [op |-> "fetchWithRetry"]
    /\ UNCHANGED <<instance, timeline>>

\* the fetch the call awaits settles
FetchSettles ==
    /\ request.pc = "fetch"
    /\ \E settled \in Responses \cup Errors :
          request' = fetchSettled(request, settled)
    /\ lastCall' = [op |-> "fetch"]
    /\ UNCHANGED <<instance, timeline>>

Next ==
    \/ SetModels
    \/ OrderSectorsByVisibility
    \/ OrderSectorsOnClearColor
    \/ OrderSectorsOnPixels
    \/ SetClipping
    \/ CreateDebugCanvas
    \/ Dispose
    \/ CreateKeyFrame
    \/ RemoveKeyFrame
    \/ Play
    \/ OnInterval
    \/ StopPlayback
    \/ FetchWithRetry
    \/ FetchSettles

Spec == Init /\ [][Next]_vars

\* the registry alone: setModels calls on a new instance
SpecModels == Constructed(<<1, 1>>, <<>>) /\ [][SetModels]_vars


\* queries, one after the other, on a registry two setModels calls have set up
InitQuery ==
    \E size \in {<<1, 1>>, <<2, 1>>}, first \in ModelLists, second \in ModelLists :
        Constructed(size, <<first, second>>)

SpecQuery == InitQuery /\ [][OrderSectorsByVisibility]_vars

\* the same, with setModels([]) calls between the queries
SpecClear == InitQuery /\ [][OrderSectorsByVisibility \/ ClearModels]_vars

\* queries on a target taller than wide, on a registry one setModels call has
\* set up with at most MaxTallSectors sectors
InitTall ==
    \E models \in ModelLists :
        /\ Constructed(<<1, 3>>, <<models>>)
        /\ sectorIdOffset <= MaxTallSectors

SpecTall == InitTall /\ [][OrderSectorsByVisibility]_vars

\* a registry setModels has set up with one model, and a target of two pixels
InitOneModel == \E model \in Models : Constructed(<<2, 1>>, <<(<<model>>)>>)

\* queries on a GL context whose owner sets its clear colour, as the tests do
SpecSharedContext == InitOneModel /\ [][OrderSectorsOnClearColor]_vars

\* createDebugCanvas calls and queries, in any order
SpecDebug == InitOneModel /\ [][CreateDebugCanvas \/ OrderSectorsByVisibility]_vars

\* the end of an instance: createDebugCanvas calls and dispose()
SpecDispose == InitOneModel /\ [][CreateDebugCanvas \/ Dispose]_vars

\* setClipping calls and queries, in any order
SpecClipping == InitOneModel /\ [][SetClipping \/ OrderSectorsByVisibility]_vars

\* a TimelineTool whose keyframes are created and removed
SpecKeyFrames == Constructed(<<1, 1>>, <<>>) /\ [][CreateKeyFrame \/ RemoveKeyFrame]_vars

\* what a TimelineTool does while keyframes are created and played
NextPlayback == CreateKeyFrame \/ Play \/ OnInterval \/ StopPlayback

SpecPlayback == Constructed(<<1, 1>>, <<>>) /\ [][NextPlayback]_vars

\* setInterval: an interval in use keeps firing until it is cleared
SpecPlaybackFair == SpecPlayback /\ WF_vars(OnInterval)

\* fetchWithRetry calls
SpecFetch == Constructed(<<1, 1>>, <<>>) /\ [][FetchWithRetry \/ FetchSettles]_vars

\* queries that decode buffers of any bytes
SpecDecode == InitOneModel /\ [][OrderSectorsOnPixels]_vars

\* an instance set up with a model of Models and then one of ModelsBySectorIds
InitSectorIds ==
    \E first \in Models : \E model \in ModelsBySectorIds :
        Constructed(<<2, 1>>, <<(<<first, model>>)>>)

\* queries on it
SpecSectorIds == InitSectorIds /\ [][OrderSectorsByVisibility]_vars

----------------------------------------------------------------------------
(* Properties of the sector id space and of setModels *)

\* the global ids of a container: [sectorIdOffset, sectorIdOffset + sectors.length)
IdRange(c) == c.sectorIdOffset .. (c.sectorIdOffset + Len(c.sectors) - 1)

KeysOf(models) == {models[i].blobUrl : i \in DOMAIN models}

RECURSIVE SumCounts(_, _)
\* the sector counts of the first n registrations, added up
SumCounts(history, n) ==
    IF n = 0 THEN 0 ELSE history[n].sectorCount + SumCounts(history, n - 1)

\* C1: the id ranges of any two distinct tracked models are disjoint, after any
\* sequence of setModels calls.
C1_RangesDisjoint ==
    \A i \in DOMAIN containers : \A j \in DOMAIN containers :
        i # j => IdRange(containers[i]) \cap IdRange(containers[j]) = {}

\* two tracked models with sectors, behind a range a removed model has left
C1_Witness ==
    /\ Len(containers) = 2
    /\ \A i \in DOMAIN containers : Len(containers[i].sectors) > 0
    /\ sectorIdOffset > Len(containers[1].sectors) + Len(containers[2].sectors)

\* C2: an id range is never reused: a model that setModels adds gets an offset
\* at or past the end of every range issued before it, also when its key was
\* tracked and removed earlier, and no call lowers the running id total.
C2_NeverReused ==
    [][/\ sectorIdOffset' >= sectorIdOffset
       /\ \A j \in DOMAIN registered' :
            j > Len(registered) =>
                /\ \A i \in 1..(j - 1) :
                      registered'[j].offset
                          >= registered'[i].offset + registered'[i].sectorCount
                /\ \E c \in DOMAIN containers' :
                      /\ containers'[c].key = registered'[j].key
                      /\ containers'[c].sectorIdOffset = registered'[j].offset
       /\ \A c \in DOMAIN containers' :
            containers'[c].key \notin Keys(containers) =>
                \E j \in DOMAIN registered' :
                    /\ j > Len(registered)
                    /\ registered'[j].key = containers'[c].key
                    /\ registered'[j].offset = containers'[c].sectorIdOffset]_vars

\* a key that was tracked, removed and added again holds its second range
C2_Witness ==
    \E i \in DOMAIN registered : \E j \in DOMAIN registered :
        /\ i < j
        /\ registered[i].key = registered[j].key
        /\ registered[i].sectorCount > 0
        /\ HasKey(containers, registered[j].key)
        /\ Get(containers, registered[j].key).sectorIdOffset = registered[j].offset

\* C3 as stated: the i-th registration gets the sum of the counts before it, and
\* the offsets issued are strictly increasing.
C3_StrictlyIncreasing ==
    /\ \A i \in DOMAIN registered :
          registered[i].offset = SumCounts(registered, i - 1)
    /\ \A i \in DOMAIN registered : \A j \in DOMAIN registered :
          i < j => registered[i].offset < registered[j].offset

\* C3, amended: the i-th registration gets the sum of the counts before it; the
\* ranges issued follow each other without overlap; the offsets never decrease,
\* and increase across every registration of at least one sector.
C3_CumulativeOffsets ==
    /\ \A i \in DOMAIN registered :
          registered[i].offset = SumCounts(registered, i - 1)
    /\ \A i \in DOMAIN registered : \A j \in DOMAIN registered :
          i < j =>
            /\ registered[i].offset + registered[i].sectorCount <= registered[j].offset
            /\ registered[i].sectorCount > 0 => registered[i].offset < registered[j].offset
    /\ sectorIdOffset = SumCounts(registered, Len(registered))

\* three registrations, one of no sector between two of some
C3_Witness ==
    /\ Len(registered) = 3
    /\ registered[1].sectorCount > 0
    /\ registered[2].sectorCount = 0
    /\ registered[3].sectorCount > 0
    /\ registered[3].offset = registered[2].offset

----------------------------------------------------------------------------
(* Properties of one query *)

Queried == lastCall.op = "orderSectorsByVisibility"

\* the ids the pixels of the last read-back decode to, background left out
ReadBackIds ==
    {buffers.rtBuffer[i].b + buffers.rtBuffer[i].g * 255
        + buffers.rtBuffer[i].r * 255 * 255 :
        i \in {k \in DOMAIN buffers.rtBuffer :
                  NotBackground(buffers.rtBuffer[k].r, buffers.rtBuffer[k].g,
                                buffers.rtBuffer[k].b)}}

RECURSIVE SumPriorities(_)
\* the numerators of the priorities of a result, added up
SumPriorities(result) ==
    IF result = <<>> THEN 0
    ELSE Head(result).priority.num + SumPriorities(Tail(result))

\* two models of one sector each, registered in this order on a new instance
TwoOneSectorModels ==
    /\ Len(containers) = 2
    /\ \A i \in 1..2 :
          /\ Len(containers[i].sectors) = 1
          /\ containers[i].sectorIdOffset = i - 1

\* C4: the global id o + k of sector k of a tracked model resolves to that model
\* and to the local id k; and with two one-sector models, a read-back that
\* encodes only the global id 1 gives one entry, of the second model, with
\* sectorId 0.
C4_ResolvesAcrossModels ==
    /\ \A i \in DOMAIN containers : \A k \in 0..(Len(containers[i].sectors) - 1) :
          LET globalId == containers[i].sectorIdOffset + k
              found    == findSectorContainer(containers, globalId)
          IN  /\ found = i
              /\ globalId - containers[found].sectorIdOffset = k
    /\ (Queried /\ TwoOneSectorModels /\ ReadBackIds = {1}) =>
          /\ ~lastCall.threw
          /\ Len(lastCall.result) = 1
          /\ lastCall.result[1].model = containers[2].model
          /\ lastCall.result[1].sectorId = 0

\* C5: the priorities of a non-empty result add up to 1: each is a weight over
\* the sum of the weights returned.
C5_PrioritiesSumToOne ==
    (Queried /\ ~lastCall.threw /\ lastCall.result # <<>>) =>
        /\ \A i \in DOMAIN lastCall.result : lastCall.result[i].priority.den > 0
        /\ SumPriorities(lastCall.result) = lastCall.result[1].priority.den

\* C6: with no model registered, a query returns the empty list.
C6_NoModelsEmptyResult ==
    (Queried /\ containers = <<>>) => (~lastCall.threw /\ lastCall.result = <<>>)

\* a query on an instance no model was ever registered with
C6_Witness ==
    /\ Queried
    /\ containers = <<>>
    /\ registered = <<>>
    /\ Len(buffers.rtBuffer) = renderTarget.width * renderTarget.height
    /\ lastCall.result = <<>>

\* C7: setModels([]) leaves no tracked container and no proxy in the scene, and
\* the query that follows it returns the empty list, whatever setModels calls
\* and queries came before.
C7_ClearLeavesNothing ==
    [][/\ (lastCall'.op = "setModels" /\ lastCall'.models = <<>>) =>
            (containers' = <<>> /\ scene' = <<>> /\ objects' = <<>>)
       /\ (/\ lastCall.op = "setModels"
           /\ lastCall.models = <<>>
           /\ lastCall'.op = "orderSectorsByVisibility") =>
            (~lastCall'.threw /\ lastCall'.result = <<>>)]_vars

\* setModels([]) has removed models whose sectors earlier queries had hit
C7_Witness ==
    /\ lastCall.op = "setModels"
    /\ lastCall.models = <<>>
    /\ Len(registered) = 2
    /\ \E i \in DOMAIN buffers.sectorVisibilityBuffer :
          buffers.sectorVisibilityBuffer[i].weight > 0
    /\ containers = <<>>
    /\ scene = <<>>

\* C8: a second setModels call with the list of the call before it leaves the
\* tracked containers, their offsets and sector lists, the running id total
\* and the proxies in the scene as they were.
C8_SetModelsIdempotent ==
    [][(lastCall'.op = "setModels" /\ lastCall'.repeated) =>
          /\ containers' = containers
          /\ sectorIdOffset' = sectorIdOffset
          /\ scene' = scene
          /\ objects' = objects
          /\ registered' = registered]_vars

\* the same list of two models passed twice in a row
C8_Witness ==
    /\ lastCall.op = "setModels"
    /\ lastCall.repeated
    /\ Len(lastCall.models) = 2
    /\ Len(containers) = 2

\* C9: after setModels(M) the tracked keys are the keys of M, and the proxies in
\* the scene are the renderables of the tracked containers, one per key.
C9_TrackedKeysAreInput ==
    lastCall.op = "setModels" =>
        /\ Keys(containers) = KeysOf(lastCall.models)
        /\ Cardinality(Keys(containers)) = Len(containers)
        /\ Len(scene) = Len(containers)
        /\ Range(scene) = {containers[i].renderable : i \in DOMAIN containers}
        /\ Cardinality(Range(scene)) = Len(scene)
        /\ DOMAIN objects = Range(scene)

\* one call has added a key and removed another
C9_Witness ==
    /\ lastCall.op = "setModels"
    /\ Len(containers) = 1
    /\ Len(registered) = 2
    /\ registered[2].key = containers[1].key
    /\ registered[1].key # containers[1].key
    /\ containers[1].sectorIdOffset = registered[2].offset

\* the transform of the last model of the list with the key
RECURSIVE LastMatrix(_, _)
LastMatrix(models, key) ==
    IF models[Len(models)].blobUrl = key THEN models[Len(models)].modelMatrix
    ELSE LastMatrix(SubSeq(models, 1, Len(models) - 1), key)

\* C10: for a model whose key is tracked already, setModels changes the
\* transform of its proxy and nothing else: the container keeps its model, its
\* offset and its sector list, the proxy keeps its instances and stays in the
\* scene once, no id range is issued for the key, and a call that passes tracked
\* keys only leaves the running id total as it was.
C10_UpdateOnlyTransform ==
    [][lastCall'.op = "setModels" =>
          /\ \A i \in DOMAIN containers :
                LET c == containers[i]
                IN  c.key \in KeysOf(lastCall'.models) =>
                      /\ \E j \in DOMAIN containers' : containers'[j] = c
                      /\ c.renderable \in DOMAIN objects'
                      /\ objects'[c.renderable].instances
                            = objects[c.renderable].instances
                      /\ objects'[c.renderable].matrix
                            = LastMatrix(lastCall'.models, c.key)
                      /\ Len(SelectSeq(scene', LAMBDA h : h = c.renderable)) = 1
                      /\ \A j \in DOMAIN registered' :
                            j > Len(registered) => registered'[j].key # c.key
          /\ KeysOf(lastCall'.models) \subseteq Keys(containers) =>
                (sectorIdOffset' = sectorIdOffset /\ registered' = registered)]_vars

\* a tracked model was passed again with another transform and another sector
\* list: the proxy has the new transform, the container the old sectors
C10_Witness ==
    /\ lastCall.op = "setModels"
    /\ \E i \in DOMAIN containers : \E m \in DOMAIN lastCall.models :
          /\ lastCall.models[m].blobUrl = containers[i].key
          /\ lastCall.models[m].sectors # containers[i].sectors
          /\ lastCall.models[m].modelMatrix # containers[i].model.modelMatrix
          /\ objects[containers[i].renderable].matrix = lastCall.models[m].modelMatrix

----------------------------------------------------------------------------
(* Properties of the ranked list *)

\* C11: when the read-back holds a pixel that is not background and all such
\* pixels encode one sector id, which resolves, the query returns exactly one
\* entry, of priority 1, with the model and the local sector id the id resolves
\* to.
C11_SingleSectorPriorityOne ==
    (Queried /\ Cardinality(ReadBackIds) = 1) =>
        LET id    == CHOOSE i \in ReadBackIds : TRUE
            found == findSectorContainer(containers, id)
        IN  found # 0 =>
              /\ ~lastCall.threw
              /\ Len(lastCall.result) = 1
              /\ lastCall.result[1].priority.den # 0
              /\ lastCall.result[1].priority.num = lastCall.result[1].priority.den
              /\ lastCall.result[1].model = containers[found].model
              /\ lastCall.result[1].sectorId = id - containers[found].sectorIdOffset

\* the global id of an entry of a result
GlobalId(entry) == Get(containers, entry.model.blobUrl).sectorIdOffset + entry.sectorId

\* the entry without its depth
Ranked(entry) ==
    [model |-> entry.model, sectorId |-> entry.sectorId, priority |-> entry.priority]

\* the buffers of an instance that has not answered a query yet
NewBuffers == [rtBuffer |-> <<>>, sectorVisibilityBuffer |-> <<>>]

\* the list is in order of non-increasing weight and priority, entries of equal
\* weight in order of ascending global id
OrderedByWeight ==
    (Queried /\ ~lastCall.threw) =>
        \A i \in DOMAIN lastCall.result : \A j \in DOMAIN lastCall.result :
            i < j =>
                LET left  == lastCall.result[i]
                    right == lastCall.result[j]
                IN  /\ left.priority.num >= right.priority.num
                    /\ (left.priority.num - right.priority.num) * left.priority.den >= 0
                    /\ left.priority.num = right.priority.num =>
                          GlobalId(left) < GlobalId(right)

\* models, sector ids and priorities of the list, in their order, are those an
\* instance with the same registry and no query before computes from the pixels
SameRankingFromSamePixels ==
    (Queried /\ ~lastCall.threw) =>
        LET new == readBackAndRank(containers, NewBuffers, buffers.rtBuffer)
        IN  /\ ~new.threw
            /\ Len(new.result) = Len(lastCall.result)
            /\ \A i \in DOMAIN new.result :
                  Ranked(new.result[i]) = Ranked(lastCall.result[i])

\* C12: the list a query returns is in order of non-increasing weight, hence of
\* non-increasing priority; entries of equal weight are in order of ascending
\* global id; and the list is the one the same pixel buffer and registry
\* always give, whatever queries came before.
C12_DeterministicOrder ==
    /\ OrderedByWeight
    /\ (Queried /\ ~lastCall.threw) =>
          lastCall.result
              = readBackAndRank(containers, NewBuffers, buffers.rtBuffer).result

\* C13: a query whose read-back holds background pixels only returns the empty
\* list and throws nothing, with models registered and whatever earlier
\* queries have hit.
C13_NoHitEmptyResult ==
    (Queried /\ ReadBackIds = {}) => (~lastCall.threw /\ lastCall.result = <<>>)

\* models with sectors are registered, an earlier query has hit one of them,
\* and the last query has read back nothing but background
C13_Witness ==
    /\ Queried
    /\ ReadBackIds = {}
    /\ Len(buffers.rtBuffer) > 0
    /\ SceneIds # {}
    /\ \E i \in DOMAIN buffers.sectorVisibilityBuffer :
          buffers.sectorVisibilityBuffer[i].weight = 0
    /\ lastCall.result = <<>>

----------------------------------------------------------------------------
(* Ids that no tracked model holds *)

\* some tracked container's range holds the id
InSomeRange(id) == \E i \in DOMAIN containers : id \in IdRange(containers[i])

\* ids of the last read-back that no tracked container's range holds
UnresolvableIds == {id \in ReadBackIds : ~InSomeRange(id)}

\* C14: findSectorContainer gives a container only for an id in its range, and
\* for an id in no tracked range it throws: a query that resolves such an id
\* ends with the out-of-range error and returns no entry for it.
C14_OutOfRangeThrows ==
    /\ \A id \in 0..(sectorIdOffset + 1) :
          LET found == findSectorContainer(containers, id)
          IN  IF InSomeRange(id)
              THEN found # 0 /\ id \in IdRange(containers[found])
              ELSE found = 0
    /\ Queried =>
          /\ lastCall.threw <=>
                \E id \in UnresolvableIds :
                    buffers.sectorVisibilityBuffer[id].weight > 0
          /\ lastCall.threw => lastCall.result = <<>>

\* models are tracked, and the query has thrown on an id between or behind
\* their ranges
C14_Witness ==
    /\ Queried
    /\ lastCall.threw
    /\ containers # <<>>
    /\ \E i \in DOMAIN containers : Len(containers[i].sectors) > 0
    /\ UnresolvableIds # {}

\* the visibility entries of the ids that resolve
Resolvable(sectorVisibility) ==
    [id \in {i \in DOMAIN sectorVisibility : InSomeRange(i)} |-> sectorVisibility[id]]

\* C15: a query that reads back an id in no tracked range does not throw; it
\* returns the entries of the sectors that resolve.
C15_SkipsOutOfRange ==
    (Queried /\ UnresolvableIds # {}) =>
        LET rest == rank(containers, Resolvable(buffers.sectorVisibilityBuffer)).result
        IN  /\ ~lastCall.threw
            /\ Len(lastCall.result) = Len(rest)
            /\ \A i \in DOMAIN rest :
                  /\ lastCall.result[i].model = rest[i].model
                  /\ lastCall.result[i].sectorId = rest[i].sectorId

----------------------------------------------------------------------------
(* Clipping *)

\* C16: the coverage pass of a query renders with the planes and the flag of
\* the most recent setClipping call (with those of a new material before the
\* first call); after setClipping(null, ...) it clips nothing; and setClipping
\* leaves the registry, the scene and the buffers as they were.
C16_ClippingOfLastCall ==
    [][/\ lastCall'.op = "orderSectorsByVisibility" =>
            /\ lastCall'.clipping = configured
            /\ configured.clippingPlanes = Null => ~ClipsView(lastCall'.clipping)
       /\ lastCall'.op = "setClipping" =>
            /\ coverageMaterial' = configured'
            /\ containers' = containers
            /\ sectorIdOffset' = sectorIdOffset
            /\ scene' = scene
            /\ objects' = objects
            /\ buffers' = buffers]_vars

\* setClipping(null, true) has been called, and the query after it has drawn
\* and returned a sector
C16_Witness ==
    /\ Queried
    /\ lastCall.clipping = [clippingPlanes |-> Null, clipIntersection |-> TRUE]
    /\ lastCall.result # <<>>
    /\ containers # <<>>

\* C17: when a query has returned entries and setClipping is then called with
\* clipping that cuts away all proxy geometry in view, the next query returns
\* the empty list.
C17_ClipAllEmptiesResult ==
    [][(/\ lastCall'.op = "orderSectorsByVisibility"
        /\ lastCall.op = "setClipping"
        /\ lastCall.afterHit
        /\ ClipsView(configured)) =>
            (~lastCall'.threw /\ lastCall'.result = <<>>)]_vars

\* a query returned entries, setClipping then cut the view away, and the query
\* after it has returned the empty list
C17_Witness ==
    /\ Queried
    /\ lastCall.clippedAfterHit
    /\ lastCall.clipping.clippingPlanes = Array(<<Plane(TRUE)>>)
    /\ SceneIds # {}
    /\ lastCall.result = <<>>

----------------------------------------------------------------------------
(* The debug surface *)

C19_DebugCanvasOnce ==
    [][lastCall'.op = "createDebugCanvas" =>
          /\ debugRenderer = Null =>
                /\ ~lastCall'.threw
                /\ debugRenderer' # Null
                /\ lastCall'.options # Null =>
                      /\ debugRenderer'.width = lastCall'.options.width
                      /\ debugRenderer'.height = lastCall'.options.height
                /\ lastCall'.options = Null =>
                      /\ debugRenderer'.width = renderTarget.width
                      /\ debugRenderer'.height = renderTarget.height
          /\ debugRenderer # Null =>
                /\ lastCall'.threw
                /\ debugRenderer' = debugRenderer
          /\ containers' = containers
          /\ sectorIdOffset' = sectorIdOffset
          /\ scene' = scene
          /\ objects' = objects
          /\ buffers' = buffers
          /\ renderTarget' = renderTarget]_vars

\* a second call, asking for another size, has thrown on an instance whose
\* debug canvas shows a sector and whose buffers hold a frame
C19_Witness ==
    /\ lastCall.op = "createDebugCanvas"
    /\ lastCall.threw
    /\ lastCall.options # Null
    /\ debugRenderer # Null
    /\ debugRenderer.width # lastCall.options.width
    /\ debugRenderer.domElement # {}
    /\ buffers.rtBuffer # <<>>

----------------------------------------------------------------------------
(* Disposal *)

\* the GPU resources the instance owns: the renderer and the render target of
\* the constructor and, once createDebugCanvas has made it, the debug renderer
Owned ==
    {"_renderer", "renderTarget"}
        \cup (IF debugRenderer # Null THEN {"debugRenderer"} ELSE {})

\* C20: after dispose() every GPU resource the instance owns (the rendering
\* context, the render target and, if one was created, the debug surface) has
\* been released exactly once, and nothing else has been released.
C20_ReleasedExactlyOnce ==
    lastCall.op = "dispose" =>
        \A resource \in Resources :
            released[resource] = (IF resource \in Owned THEN 1 ELSE 0)

----------------------------------------------------------------------------
(* Properties of the accumulators between queries *)

\* the depth bytes of the pixels of the last read-back that decode to the id
DepthsOf(id) ==
    {buffers.rtBuffer[i].a :
        i \in {k \in DOMAIN buffers.rtBuffer :
                  /\ NotBackground(buffers.rtBuffer[k].r, buffers.rtBuffer[k].g,
                                   buffers.rtBuffer[k].b)
                  /\ buffers.rtBuffer[k].b + buffers.rtBuffer[k].g * 255
                        + buffers.rtBuffer[k].r * 255 * 255 = id}}

\* C23: weights do not carry over from one query to the next: a sector no pixel
\* of the current read-back encodes is absent from the result, whatever earlier
\* queries have hit, and the models, sector ids and priorities returned are the
\* ones an instance that never answered a query computes from the same pixels.
C23_WeightsDoNotCarryOver ==
    (Queried /\ ~lastCall.threw) =>
        /\ \A i \in DOMAIN lastCall.result :
              GlobalId(lastCall.result[i]) \in ReadBackIds
        /\ LET new == readBackAndRank(containers, NewBuffers, buffers.rtBuffer)
           IN  /\ Len(new.result) = Len(lastCall.result)
               /\ \A i \in DOMAIN new.result :
                     /\ new.result[i].model = lastCall.result[i].model
                     /\ new.result[i].sectorId = lastCall.result[i].sectorId
                     /\ new.result[i].priority = lastCall.result[i].priority

\* an earlier query has hit a sector that the last query, which returns another
\* sector, has not read back
C23_Witness ==
    /\ Queried
    /\ ~lastCall.threw
    /\ Len(lastCall.result) = 1
    /\ \E id \in DOMAIN buffers.sectorVisibilityBuffer : id \notin ReadBackIds

\* C24: the depth of a returned entry is the least depth byte of the pixels of
\* the current read-back that encode its sector; depths read back by earlier
\* queries have no part in it.
C24_DepthOfCurrentPixels ==
    (Queried /\ ~lastCall.threw) =>
        \A i \in DOMAIN lastCall.result :
            LET depths == DepthsOf(GlobalId(lastCall.result[i]))
            IN  /\ depths # {}
                /\ lastCall.result[i].depth \in depths
                /\ \A d \in depths : lastCall.result[i].depth <= d

----------------------------------------------------------------------------
(* Properties of the ids written to the proxies *)

\* the proxy mesh of the i-th tracked model
Proxy(i) == objects[containers[i].renderable]

\* C25: for every tracked model with offset o and n sectors, the ids written to
\* its proxy instances are exactly o .. o + n - 1, the instance of the sector at
\* position k of its sector list (the slot of that sector's id, which carries
\* its bounds) carrying o + k; no instance carries an id outside the range of
\* its model, and every id the scene draws resolves to a tracked model.
C25_IdsByPosition ==
    /\ \A i \in DOMAIN containers :
          LET o         == containers[i].sectorIdOffset
              sectors   == containers[i].sectors
              n         == Len(sectors)
              instances == Proxy(i).instances
          IN  /\ {instances[s].a_sectorId : s \in DOMAIN instances} = o..(o + n - 1)
              /\ \A k \in 0..(n - 1) :
                    /\ sectors[k + 1] + 1 \in DOMAIN instances
                    /\ instances[sectors[k + 1] + 1].a_sectorId = o + k
    /\ \A id \in SceneIds : findSectorContainer(containers, id) # 0

----------------------------------------------------------------------------
(* Properties of the steps of one query *)

\* the position of a step among the steps of the last call, 0 when it is none
StepAt(name) ==
    IF \E i \in DOMAIN lastCall.steps : lastCall.steps[i] = name
    THEN CHOOSE i \in DOMAIN lastCall.steps : lastCall.steps[i] = name
    ELSE 0

\* C26: the steps of one orderSectorsByVisibility call are, in this order: the
\* debug render (only with a debug surface), the primary render, the buffer
\* preparation, the read-back, the decode, the ranking.  The read-back does
\* not precede the render of the call (the buffer holds the frame of this
\* call) and the weight reset does not follow the decode (every id read back
\* is left with the weight its pixels add).
C26_StepOrder ==
    Queried =>
        /\ lastCall.steps
              = (IF debugRenderer = Null THEN <<>> ELSE <<"debugRender">>)
                \o <<"render", "prepareBuffers", "readRenderTargetPixels",
                     "unpackSectorVisibility", "rank">>
        /\ StepAt("render") < StepAt("readRenderTargetPixels")
        /\ StepAt("prepareBuffers") < StepAt("unpackSectorVisibility")
        /\ \A i \in DOMAIN lastCall.camera : buffers.rtBuffer[i] = lastCall.camera[i]
        /\ \A id \in ReadBackIds :
              buffers.sectorVisibilityBuffer[id].weight
                 = unpackSectorVisibility(renderTarget.width, renderTarget.height,
                                          buffers.rtBuffer, <<>>)[id].weight

\* a query on an instance with a debug surface, all six steps made, that returns
\* a sector
C26_Witness ==
    /\ Queried
    /\ debugRenderer # Null
    /\ Len(lastCall.steps) = 6
    /\ lastCall.result # <<>>

----------------------------------------------------------------------------
(* Properties of the weight of a pixel *)

\* (x - width / 2) / (width / 2), in fixed point
ColumnRx(x, width) == ((2 * x - width) * Scale) \div width

\* C27: for the pixel at column x and row y of the target, the position used
\* for the weight is rx = (x - width/2) / (width/2), from the column, and
\* ry = (y - height/2) / (height/2), from the row, and both are in [-1, 1].
C27_NormalizedPosition ==
    Queried =>
        \A x \in 0..(renderTarget.width - 1) : \A y \in 0..(renderTarget.height - 1) :
            LET rx == RowRx(y, renderTarget.width)
                ry == RowRy(y, renderTarget.height)
            IN  /\ rx = ColumnRx(x, renderTarget.width)
                /\ ry = ((2 * y - renderTarget.height) * Scale) \div renderTarget.height
                /\ -Scale <= rx /\ rx <= Scale
                /\ -Scale <= ry /\ ry <= Scale

\* C29: the weight added for a pixel is above 0 at every position of the
\* target, so every sector that a pixel of the current read-back encodes, and
\* whose id resolves, is in the result of the query.
C29_HitSectorsReturned ==
    Queried =>
        /\ \A y \in 0..(renderTarget.height - 1) :
              PixelWeight[<<renderTarget.width, renderTarget.height>>][y] > 0
        /\ ~lastCall.threw =>
              \A id \in ReadBackIds :
                  findSectorContainer(containers, id) # 0 =>
                      \E i \in DOMAIN lastCall.result :
                          GlobalId(lastCall.result[i]) = id

----------------------------------------------------------------------------
(* Properties of the decode of a pixel *)

\* the pixels of the last read-back that are not background
HitPixels ==
    {buffers.rtBuffer[i] :
        i \in {k \in DOMAIN buffers.rtBuffer :
                  NotBackground(buffers.rtBuffer[k].r, buffers.rtBuffer[k].g,
                                buffers.rtBuffer[k].b)}}

\* the colour bytes of a pixel
Rgb(p) == <<p.r, p.g, p.b>>

\* the id a pixel is accumulated under is B + G * 255 + R * 255^2
DecodedAsStated ==
    \A p \in HitPixels :
        LET id == p.b + p.g * 255 + p.r * 255 * 255
        IN  /\ id \in DOMAIN buffers.sectorVisibilityBuffer
            /\ buffers.sectorVisibilityBuffer[id].sectorIdWithOffset = id
            /\ buffers.sectorVisibilityBuffer[id].weight # 0

\* the accumulator entries the last query has added weight to
HitEntries ==
    {id \in DOMAIN buffers.sectorVisibilityBuffer :
        buffers.sectorVisibilityBuffer[id].weight # 0}

\* a pixel the packing of an id can give: green and blue bytes below 255
Packed(p) == p.g <= 254 /\ p.b <= 254

\* C28 as stated: a pixel decodes to B + G * 255 + R * 255^2, and two pixels of
\* different (R, G, B) bytes, neither the background, never decode to one id:
\* the query adds weight to as many accumulator entries as the read-back has
\* colours.
C28_DistinctPixelsDistinctIds ==
    Queried =>
        /\ DecodedAsStated
        /\ \A p \in HitPixels : \A q \in HitPixels :
              Rgb(p) # Rgb(q) =>
                  sectorIdWithOffsetOf(p.r, p.g, p.b) # sectorIdWithOffsetOf(q.r, q.g, q.b)
        /\ Cardinality(HitEntries) = Cardinality({Rgb(p) : p \in HitPixels})

\* C28, amended: a pixel decodes to B + G * 255 + R * 255^2; packing an id read
\* back and decoding the pixel gives the id again; and two pixels of different
\* (R, G, B) bytes that the packing can give (green and blue below 255) never
\* decode to one id, so a read-back of such pixels adds weight to as many
\* accumulator entries as it has colours.
C28_PackedRoundTrip ==
    Queried =>
        /\ DecodedAsStated
        /\ \A id \in ReadBackIds :
              LET p == Fragment(id, 0)
              IN  /\ Packed(p)
                  /\ sectorIdWithOffsetOf(p.r, p.g, p.b) = id
        /\ \A p \in HitPixels : \A q \in HitPixels :
              (Packed(p) /\ Packed(q) /\ Rgb(p) # Rgb(q)) =>
                  sectorIdWithOffsetOf(p.r, p.g, p.b) # sectorIdWithOffsetOf(q.r, q.g, q.b)
        /\ (\A p \in HitPixels : Packed(p)) =>
              Cardinality(HitEntries) = Cardinality({Rgb(p) : p \in HitPixels})

\* a read-back of two packed pixels of different colours, one of an id above a
\* byte, each accumulated under its own id
C28_Witness ==
    /\ Queried
    /\ Cardinality(HitEntries) = 2
    /\ \A p \in HitPixels : Packed(p)
    /\ \E p \in HitPixels : p.g > 0

----------------------------------------------------------------------------
(* Properties of the TimelineTool *)

\* the keyframes of a list whose date is not the one given, in their order
OtherKeyFrames(timelineframes, date) ==
    SelectSeq(timelineframes, LAMBDA frame : frame.date # date)

\* C21: removeKeyFrame(date) removes the keyframe whose date is date and keeps
\* every other keyframe; with no keyframe of that date the timeline is left
\* as it was.
C21_RemovesOnlyThatKeyFrame ==
    lastCall.op = "removeKeyFrame" =>
        LET before == lastCall.before
            after  == timeline.timelineframes
        IN  IF findIndex(before, lastCall.date) # 0
            THEN /\ OtherKeyFrames(after, lastCall.date)
                       = OtherKeyFrames(before, lastCall.date)
                 /\ Len(after) = Len(before) - 1
            ELSE after = before

\* the intervals play can make
Intervals ==
    {[id |-> id, endDate |-> endDate] : id \in 1..MaxIntervals, endDate \in DateObjects}

\* at most one interval is in use, the one intervalId names
OnePlayback ==
    /\ Cardinality(timeline.timers) <= 1
    /\ \A timer \in timeline.timers : timer.id = timeline.intervalId
    /\ timeline.intervalId # 0 => timeline.timers # {}

\* a tick before the end styles the keyframe of the current date and moves the
\* current date to the keyframe after it in the list play has put in date order
TickStylesAndAdvances ==
    \A timer \in timeline.timers :
        (/\ lastCall'.op = "onInterval"
         /\ timeline.currentDate # timer.endDate
         /\ timeline.timelineframes # <<>>) =>
            LET index == currentIndexOf(timeline.timelineframes, timeline.currentDate)
            IN  /\ timeline.timelineframes[index].nodeCollection \in timeline'.styled
                /\ timeline'.currentDate
                      = IF index < Len(timeline.timelineframes)
                        THEN timeline.timelineframes[index + 1].date
                        ELSE timeline.currentDate

\* C22: after play(startDate, endDate, duration) an earlier playback has been
\* stopped (one interval at most is in use); each tick styles the model by the
\* current date and advances to the next keyframe in date order; and once the
\* current date has reached endDate (is of the time of endDate) the playback
\* stops: its interval is cleared.
C22_PlaybackStopsAtEndDate ==
    /\ []OnePlayback
    /\ [][TickStylesAndAdvances]_vars
    /\ \A timer \in Intervals :
          []((timer \in timeline.timers
                /\ timeline.currentDate.time = timer.endDate.time)
             => <>(timer \notin timeline.timers))

----------------------------------------------------------------------------
(* Properties of fetchWithRetry *)

\* C30: fetchWithRetry makes at most retries attempts; it returns the response
\* of the first attempt that succeeds and makes no attempt after it; and when
\* every attempt has failed it throws the error of the first failed attempt.
C30_ThrowsFirstError ==
    /\ Len(request.attempts) <= request.retries
    /\ request.pc = "returned" =>
          /\ request.outcome \in Responses
          /\ request.attempts[Len(request.attempts)] = request.outcome
          /\ \A k \in 1..(Len(request.attempts) - 1) : request.attempts[k] \in Errors
    /\ (request.pc = "threw" /\ request.attempts # <<>>) =>
          /\ Len(request.attempts) = request.retries
          /\ \A k \in DOMAIN request.attempts : request.attempts[k] \in Errors
          /\ request.outcome = request.attempts[1]

====
